---------------------------- MODULE Spec2Model ----------------------------
(***************************************************************************)
(* Model of the agent query orchestrator and data synchronisation layer of *)
(* event_venue_ui_v7.py (class VenueManagementSystem).                     *)
(*                                                                         *)
(* Text that the code slices, lower-cases or searches (query text, result  *)
(* text, hit text) is a sequence of one-character strings.  Labels that    *)
(* the code only copies (step descriptions, URIs, names) are strings.      *)
(* A date string 'YYYY-MM-DD' is a tuple <<y, m, d>>; a datetime is a day  *)
(* number counted from 2025-01-01.                                         *)
(***************************************************************************)
EXTENDS Integers, Sequences, FiniteSets, TLC

VARIABLES
    venuesTable,    \* remote table 'venue_management_venues' (set of items)
    bookingsTable,  \* remote agent table resources['dynamodb_table']
    revenueTable,   \* remote table 'venue_management_revenue'
    now,            \* datetime.now(), as a day number
    st,             \* st.session_state of the one browser session
    app,            \* the VenueManagementSystem instance of the current script run
    loads,          \* the loader calls of the last __init__: their inputs and effects
    call            \* the last execute_agent_query call: its inputs, outputs, effects

vars == <<venuesTable, bookingsTable, revenueTable, now, st, app, loads, call>>

----------------------------------------------------------------------------
(* Bounds of the model *)

\* longest response stream (number of events) of the single-call specification
MaxEvents == 2
\* most queries submitted in one session of the session specification
MaxLog == 2
\* most records the agent writes to the bookings table
MaxBookings == 1
\* length of the long retrieval hit text is SnippetLen + ExtraLen
ExtraLen == 7

----------------------------------------------------------------------------
(* Text: str.lower(), the `in` substring test, slicing *)

UpperCase == <<"A","B","C","D","E","F","G","H","I","J","K","L","M",
               "N","O","P","Q","R","S","T","U","V","W","X","Y","Z">>
LowerCase == <<"a","b","c","d","e","f","g","h","i","j","k","l","m",
               "n","o","p","q","r","s","t","u","v","w","x","y","z">>

LowerChar(c) ==
    IF \E i \in 1..26 : UpperCase[i] = c
    THEN LowerCase[CHOOSE i \in 1..26 : UpperCase[i] = c]
    ELSE c

\* query.lower()
Lower(s) == [i \in 1..Len(s) |-> LowerChar(s[i])]

\* sub in s
Contains(s, sub) ==
    \E i \in 0..(Len(s) - Len(sub)) : SubSeq(s, i + 1, i + Len(sub)) = sub

\* s[:n]
Take(s, n) == SubSeq(s, 1, IF Len(s) < n THEN Len(s) ELSE n)

----------------------------------------------------------------------------
(* Literals of execute_agent_query *)

\* 'EXECUTION ERROR', the marker tested in the result (line 716)
ExecutionErrorMarker ==
    <<"E","X","E","C","U","T","I","O","N"," ","E","R","R","O","R">>

\* f"EXECUTION ERROR: {str(e)}" (line 722)
ExecutionError(cause) == ExecutionErrorMarker \o <<":"," ">> \o cause

\* "SYSTEM ERROR: Agent connection unavailable" (line 655)
SystemErrorText ==
    <<"S","Y","S","T","E","M"," ","E","R","R","O","R",":"," ","A","g","e","n",
      "t"," ","c","o","n","n","e","c","t","i","o","n"," ","u","n","a","v","a",
      "i","l","a","b","l","e">>

KwBook == <<"b","o","o","k">>
KwReserve == <<"r","e","s","e","r","v","e">>
KwSchedule == <<"s","c","h","e","d","u","l","e">>
KwCreate == <<"c","r","e","a","t","e">>
KwCreateBooking == <<"c","r","e","a","t","e"," ","b","o","o","k","i","n","g">>

\* booking_keywords (line 715)
booking_keywords == {KwBook, KwReserve, KwSchedule, KwCreateBooking}

\* the keywords of the resource display (line 705)
display_keywords == {KwBook, KwCreate, KwReserve}

\* any(keyword in query.lower() for keyword in keywords)
AnyKeyword(query, keywords) == \E k \in keywords : Contains(Lower(query), k)

\* query texts: with a booking keyword and a display keyword; with neither;
\* with the display keyword 'create' alone; with the booking keyword
\* 'schedule' alone, in upper case
QBook == <<"B","o","o","k"," ","a"," ","r","o","o","m">>
QHours == <<"o","p","e","n"," ","h","o","u","r","s">>
QCreate == <<"C","r","e","a","t","e"," ","e","v","e","n","t">>
QSchedule == <<"S","C","H","E","D","U","L","E"," ","i","t">>
Queries == {QBook, QHours, QCreate, QSchedule}

\* the conditions of lines 705 and 716 on the query text, for the query
\* texts of the model
display_query == [q \in Queries |-> AnyKeyword(q, display_keywords)]
booking_query == [q \in Queries |-> AnyKeyword(q, booking_keywords)]

\* the keys tested in a trace (lines 683-708)
PreProcessing == "preProcessingTrace"
Orchestration == "orchestrationTrace"
KnowledgeBase == "knowledgeBaseRetrievalTrace"
Invocation == "invocationInput"
PostProcessing == "postProcessingTrace"
KnownMarkers == {PreProcessing, Orchestration, KnowledgeBase, Invocation, PostProcessing}

\* trace keys of the agent service that the code does not test
UnknownMarkers == {"guardrailTrace", "failureTrace"}

StepPre == "PRE-PROCESSING: Input validation and routing"
StepOrch == "ORCHESTRATION: Agent workflow execution"
StepKB == "KNOWLEDGE BASE: Vector similarity search"
StepLambda == "LAMBDA: Processing booking operation"
StepDynamo == "DYNAMODB: Updating venue records"
StepPost == "POST-PROCESSING: Response formatting and validation"

\* the slice bound of a citation snippet (line 695)
SnippetLen == 200
Ellipsis == <<".",".",".">>
\* the default of .get('uri', ...) (line 697)
UriPlaceholder == "Knowledge Base"

----------------------------------------------------------------------------
(* Dates: datetime, strftime('%Y-%m-%d'), strptime(.., '%Y-%m-%d').         *)
(* Day numbers count from 2025-01-01; the model stays inside 2025.         *)

MonthDays == <<31, 28, 31, 30, 31, 30, 31, 31, 30, 31, 30, 31>>
DaysBefore == <<0, 31, 59, 90, 120, 151, 181, 212, 243, 273, 304, 334>>

\* datetime.strftime('%Y-%m-%d')
StrfTime(n) ==
    LET doy == n % 365
        m == CHOOSE k \in 1..12 :
                 DaysBefore[k] <= doy /\ doy < DaysBefore[k] + MonthDays[k]
    IN  <<2025 + (n \div 365), m, doy - DaysBefore[m] + 1>>

\* whether datetime.strptime(d, '%Y-%m-%d') returns (it raises ValueError otherwise)
DateValid(d) ==
    /\ Len(d) = 3
    /\ d[2] \in 1..12
    /\ d[3] \in 1..MonthDays[d[2]]

\* datetime.strptime(d, '%Y-%m-%d')
StrpTime(d) == (d[1] - 2025) * 365 + DaysBefore[d[2]] + d[3] - 1

\* datetime.month
MonthOf(n) == StrfTime(n)[2]

\* datetime.weekday(), Monday = 0; 2025-01-01 is a Wednesday
Weekday(n) == (n + 2) % 7

\* the order of 'YYYY-MM-DD' strings
DateLeq(a, b) ==
    \/ a[1] < b[1]
    \/ a[1] = b[1] /\ a[2] < b[2]
    \/ a[1] = b[1] /\ a[2] = b[2] /\ a[3] <= b[3]

----------------------------------------------------------------------------
(* The remote record store: a table is a set of items with one item per    *)
(* key value; put_item replaces the item of the same key.                  *)

put_item(table, key, item) == {x \in table : x[key] # item[key]} \cup {item}

\* the first k puts of a loop `for item in items: table.put_item(Item=item)`
RECURSIVE PutFirst(_, _, _, _)
PutFirst(table, key, items, k) ==
    IF k = 0 THEN table
    ELSE put_item(PutFirst(table, key, items, k - 1), key, items[k])

\* the orders in which a scan can return the items of a table
ScanOrders(table) ==
    {f \in [1..Cardinality(table) -> table] :
        \A i, j \in 1..Cardinality(table) : i # j => f[i] # f[j]}

\* one scan order, for the tables whose loader result does not depend on it
Scan(table) == CHOOSE f \in ScanOrders(table) : TRUE

----------------------------------------------------------------------------
(* Venues *)

\* default_venues of load_venues_from_db (lines 205-210)
default_venues == <<
    [venue_id |-> "grand_ballroom", name |-> "Grand Ballroom", capacity |-> 200,
     price |-> 2500, utilization |-> 85],
    [venue_id |-> "conference_a", name |-> "Conference Room A", capacity |-> 50,
     price |-> 800, utilization |-> 72],
    [venue_id |-> "garden_terrace", name |-> "Garden Terrace", capacity |-> 100,
     price |-> 1200, utilization |-> 68],
    [venue_id |-> "executive_board", name |-> "Executive Board", capacity |-> 20,
     price |-> 600, utilization |-> 91] >>

\* a fallback that lost its last venue
get_default_venues_short == <<
    [name |-> "Grand Ballroom", capacity |-> 200, price |-> 2500, utilization |-> 85],
    [name |-> "Conference Room A", capacity |-> 50, price |-> 800, utilization |-> 72],
    [name |-> "Garden Terrace", capacity |-> 100, price |-> 1200, utilization |-> 68] >>

\* get_default_venues (lines 275-282): the same venues without venue_id
get_default_venues == <<
    [name |-> "Grand Ballroom", capacity |-> 200, price |-> 2500, utilization |-> 85],
    [name |-> "Conference Room A", capacity |-> 50, price |-> 800, utilization |-> 72],
    [name |-> "Garden Terrace", capacity |-> 100, price |-> 1200, utilization |-> 68],
    [name |-> "Executive Board", capacity |-> 20, price |-> 600, utilization |-> 91] >>

\* a venue somebody else stored
OtherVenue ==
    [venue_id |-> "rooftop", name |-> "Rooftop", capacity |-> 80,
     price |-> 1500, utilization |-> 40]

\* a venue loader that never seeds the table
load_venues_without_seed(hasDb, table, scanOk, putsOk) ==
    IF ~hasDb THEN
        [ret |-> get_default_venues, table |-> table, scans |-> 0, puts |-> 0]
    ELSE IF ~scanOk THEN
        [ret |-> get_default_venues, table |-> table, scans |-> 1, puts |-> 0]
    ELSE IF table # {} THEN
        [ret |-> Scan(table), table |-> table, scans |-> 1, puts |-> 0]
    ELSE
        [ret |-> get_default_venues, table |-> table, scans |-> 1, puts |-> 0]

\* load_venues_from_db.  hasDb: self.dynamodb exists; scanOk: table.scan()
\* returns; putsOk: how many put_item calls return before one raises (all of
\* them when putsOk = Len(default_venues)).
\* Result: the returned list, the table afterwards, the scans and puts made.
load_venues_from_db(hasDb, table, scanOk, putsOk) ==
    IF ~hasDb THEN
        [ret |-> get_default_venues, table |-> table, scans |-> 0, puts |-> 0]
    ELSE IF ~scanOk THEN
        [ret |-> get_default_venues, table |-> table, scans |-> 1, puts |-> 0]
    ELSE IF table # {} THEN
        [ret |-> Scan(table), table |-> table, scans |-> 1, puts |-> 0]
    ELSE IF putsOk < Len(default_venues) THEN
        [ret |-> get_default_venues,
         table |-> PutFirst(table, "venue_id", default_venues, putsOk),
         scans |-> 1, puts |-> putsOk + 1]
    ELSE
        [ret |-> default_venues,
         table |-> PutFirst(table, "venue_id", default_venues, Len(default_venues)),
         scans |-> 1, puts |-> Len(default_venues)]

----------------------------------------------------------------------------
(* Bookings *)

\* the records the agent can write to its table: one dated in March 2025, one
\* in April 2025, one whose event_date is no date
BookingRecords == {
    [booking_id |-> "B1", client_name |-> "ABC Corp", venue_name |-> "Grand Ballroom",
     event_type |-> "Gala", event_date |-> <<2025, 3, 5>>],
    [booking_id |-> "B3", client_name |-> "Acme", venue_name |-> "Executive Board",
     event_type |-> "Review", event_date |-> <<2025, 4, 10>>],
    [booking_id |-> "B4", client_name |-> "Initech", venue_name |-> "Conference Room A",
     event_type |-> "Workshop", event_date |-> <<2025, 13, 1>>] }

\* f"{venue_name} - {client_name} {event_type}" (line 232), kept as its parts
Display(item) == <<item.venue_name, item.client_name, item.event_type>>

\* the dict {} and the assignment d[k] = v
EmptyDict == [k \in {} |-> <<>>]
DictSet(d, k, v) == [x \in DOMAIN d \cup {k} |-> IF x = k THEN v ELSE d[x]]

\* the fallback of load_bookings_from_db (line 237) and init_default_data (line 289)
default_bookings ==
    DictSet(EmptyDict, <<2025, 3, 5>>, <<"Conference Room A", "ABC Corp", "Meeting">>)

\* the loop of lines 227-232 over the first n scanned items
RECURSIVE BookingsOf(_, _)
BookingsOf(items, n) ==
    IF n = 0 THEN EmptyDict
    ELSE LET d == BookingsOf(items, n - 1)
             date_key == items[n].event_date
         IN  IF date_key # <<>> THEN DictSet(d, date_key, Display(items[n])) ELSE d

\* load_bookings_from_db.  hasTable: self.dynamodb and self.resources exist;
\* items: the scan result in the order returned; scanOk: table.scan() returns.
load_bookings_from_db(hasTable, items, scanOk) ==
    IF ~hasTable THEN [ret |-> default_bookings, scans |-> 0, puts |-> 0]
    ELSE IF ~scanOk THEN [ret |-> default_bookings, scans |-> 1, puts |-> 0]
    ELSE [ret |-> BookingsOf(items, Len(items)), scans |-> 1, puts |-> 0]

\* len([d for d in bookings.keys() if strptime(d).month == now().month]);
\* the expression raises when a key is no date
MonthCountRaises(bookings) == \E d \in DOMAIN bookings : ~DateValid(d)
MonthCount(bookings, today) ==
    Cardinality({d \in DOMAIN bookings : MonthOf(StrpTime(d)) = MonthOf(today)})

----------------------------------------------------------------------------
(* Revenue *)

\* range(30) of the seed loop (line 256)
SeedDays == 30
\* range(30, 0, -1) and range(30) of the fallback (lines 271-272)
FallbackDays == 30

\* a revenue row somebody else stored
OtherRevenue == [date |-> <<2025, 1, 15>>, revenue |-> 5000]

\* iteration i (from 0) of the seed loop (lines 256-266)
SeedDate(i, today) == today - ((SeedDays - 1) - i)
SeedRevenue(i, today) ==
    2000 + (i * 50) + (IF Weekday(SeedDate(i, today)) >= 5 THEN 500 ELSE 0)
SeedRows(today) ==
    [k \in 1..SeedDays |->
        [date |-> StrfTime(SeedDate(k - 1, today)), revenue |-> SeedRevenue(k - 1, today)]]

\* the except branch (lines 271-273) and init_default_data (lines 292-294)
default_revenue(today) ==
    [dates |-> [k \in 1..FallbackDays |-> today - (FallbackDays - (k - 1))],
     revenue |-> [k \in 1..FallbackDays |-> 2000 + ((k - 1) * 50)]]

\* sorted(items, key=lambda x: x['date'])
RECURSIVE SortedByDate(_)
SortedByDate(rows) ==
    IF rows = {} THEN <<>>
    ELSE LET first == CHOOSE x \in rows : \A y \in rows : DateLeq(x.date, y.date)
         IN  <<first>> \o SortedByDate(rows \ {first})

\* load_revenue_from_db, with the parameters of load_venues_from_db and now()
load_revenue_from_db(hasDb, table, scanOk, putsOk, today) ==
    IF ~hasDb THEN
        [ret |-> default_revenue(today), table |-> table, scans |-> 0, puts |-> 0]
    ELSE IF ~scanOk THEN
        [ret |-> default_revenue(today), table |-> table, scans |-> 1, puts |-> 0]
    ELSE IF table # {} THEN
        LET sorted_items == SortedByDate(table)
        IN  IF \E r \in table : ~DateValid(r.date)
            THEN [ret |-> default_revenue(today), table |-> table, scans |-> 1, puts |-> 0]
            ELSE [ret |-> [dates |-> [k \in 1..Len(sorted_items) |->
                                         StrpTime(sorted_items[k].date)],
                           revenue |-> [k \in 1..Len(sorted_items) |->
                                         sorted_items[k].revenue]],
                  table |-> table, scans |-> 1, puts |-> 0]
    ELSE IF putsOk < SeedDays THEN
        [ret |-> default_revenue(today),
         table |-> PutFirst(table, "date", SeedRows(today), putsOk),
         scans |-> 1, puts |-> putsOk + 1]
    ELSE
        [ret |-> [dates |-> [k \in 1..SeedDays |-> SeedDate(k - 1, today)],
                  revenue |-> [k \in 1..SeedDays |-> SeedRevenue(k - 1, today)]],
         table |-> PutFirst(table, "date", SeedRows(today), SeedDays),
         scans |-> 1, puts |-> SeedDays]

----------------------------------------------------------------------------
(* The response stream of invoke_agent and its classification *)

\* str(e) of the exceptions the call can raise
CauseInvoke == <<"t","i","m","e","o","u","t">>
CauseStream == <<"s","t","r","e","a","m">>
CauseDecode == <<"u","t","f","8">>
CauseKey == <<"'","c","o","n","t","e","n","t","'">>

\* An event of response['completion'].  kind "chunk": event has the key
\* 'chunk' (decodes: bytes.decode('utf8') returns); kind "trace": event has
\* the key 'trace' and not 'chunk' (markers: the keys of trace; hasResults:
\* 'retrievalResults' is a key; hits: its value); kind "other": neither key;
\* kind "raise": the iterator raises instead of yielding an event.
Event(kind, bytes, decodes, markers, hasResults, hits) ==
    [kind |-> kind, bytes |-> bytes, decodes |-> decodes, markers |-> markers,
     hasResults |-> hasResults, hits |-> hits]

ChunkEvent(bytes) == Event("chunk", bytes, TRUE, {}, FALSE, <<>>)
BadChunkEvent == Event("chunk", <<>>, FALSE, {}, FALSE, <<>>)
TraceEvent(markers, hasResults, hits) == Event("trace", <<>>, TRUE, markers, hasResults, hits)
OtherEvent == Event("other", <<>>, TRUE, {}, FALSE, <<>>)
RaiseEvent == Event("raise", <<>>, TRUE, {}, FALSE, <<>>)

\* A retrieval result.  hasText: result_item['content']['text'] exists;
\* hasUri: location.s3Location.uri exists.
Hit(hasText, text, score, hasUri, uri) ==
    [hasText |-> hasText, text |-> text, score |-> score, hasUri |-> hasUri, uri |-> uri]

\* a citation that keeps the whole text of the hit
CitationUntruncated(hit) ==
    [content |-> hit.text \o Ellipsis,
     score |-> hit.score,
     source |-> IF hit.hasUri THEN hit.uri ELSE UriPlaceholder]

\* the dict appended to sources (lines 694-698)
Citation(hit) ==
    [content |-> Take(hit.text, SnippetLen) \o Ellipsis,
     score |-> hit.score,
     source |-> IF hit.hasUri THEN hit.uri ELSE UriPlaceholder]

\* the citations of the first n hits (loop of line 693)
RECURSIVE CitationsOf(_, _)
CitationsOf(hits, n) ==
    IF n = 0 THEN <<>> ELSE Append(CitationsOf(hits, n - 1), Citation(hits[n]))

\* whether the loop of line 693 raises KeyError, which ends the whole call
HitsRaise(hits) == \E i \in 1..Len(hits) : ~hits[i].hasText

\* display_aws_resources_for_booking (lines 724-747): the message it appends
\* to st.session_state.messages.  The text of aws_info is kept as the item
\* count and the items it formats.
display_aws_resources_for_booking(hasTable, items, scanOk) ==
    IF hasTable /\ scanOk
    THEN [role |-> "infrastructure", error |-> FALSE, found |-> Len(items), items |-> items]
    ELSE [role |-> "infrastructure", error |-> TRUE, found |-> 0, items |-> <<>>]

\* the steps of a trace event if an action-group invocation appended one step
TraceStepsOneInvocation(markers) ==
    (IF PreProcessing \in markers THEN <<StepPre>> ELSE <<>>)
    \o (IF Orchestration \in markers THEN <<StepOrch>> ELSE <<>>)
    \o (IF KnowledgeBase \in markers THEN <<StepKB>> ELSE <<>>)
    \o (IF Invocation \in markers THEN <<StepLambda>> ELSE <<>>)
    \o (IF PostProcessing \in markers THEN <<StepPost>> ELSE <<>>)

\* the steps one trace event appends (lines 683-709), in the order of the code
TraceSteps(markers) ==
    (IF PreProcessing \in markers THEN <<StepPre>> ELSE <<>>)
    \o (IF Orchestration \in markers THEN <<StepOrch>> ELSE <<>>)
    \o (IF KnowledgeBase \in markers THEN <<StepKB>> ELSE <<>>)
    \o (IF Invocation \in markers THEN <<StepLambda, StepDynamo>> ELSE <<>>)
    \o (IF PostProcessing \in markers THEN <<StepPost>> ELSE <<>>)

\* the new value of result at a chunk (line 678)
ChunkResult(result, bytes) == bytes

\* the state of the loop of line 676 before its first event
LoopStart ==
    [result |-> <<>>, steps |-> <<>>, sources |-> <<>>, msgs |-> <<>>,
     scans |-> 0, raised |-> FALSE, cause |-> <<>>]

\* a loop that goes on after an exception (no handler of line 721)
RaisedIgnored(acc, cause) == acc

\* the loop state after an exception: the handler of line 721 takes over
Raised(acc, cause) == [acc EXCEPT !.raised = TRUE, !.cause = cause]

\* a trace branch that puts the resource display into the returned steps
TraceBodyDumpInSteps(acc, ev, query, hasTable, items, dumpOk) ==
    LET kbRaises == KnowledgeBase \in ev.markers /\ ev.hasResults /\ HitsRaise(ev.hits)
        cites == IF KnowledgeBase \in ev.markers /\ ev.hasResults
                 THEN CitationsOf(ev.hits, Len(ev.hits)) ELSE <<>>
        dump == Invocation \in ev.markers /\ display_query[query]
    IN  IF kbRaises THEN Raised(acc, CauseKey)
        ELSE [acc EXCEPT
                !.steps = acc.steps \o TraceSteps(ev.markers)
                          \o (IF dump THEN <<"AWS RESOURCES">> ELSE <<>>),
                !.sources = acc.sources \o cites,
                !.scans = IF dump /\ hasTable THEN acc.scans + 1 ELSE acc.scans]

\* the body of the trace branch (lines 680-709)
TraceBody(acc, ev, query, hasTable, items, dumpOk) ==
    LET kbRaises == KnowledgeBase \in ev.markers /\ ev.hasResults /\ HitsRaise(ev.hits)
        cites == IF KnowledgeBase \in ev.markers /\ ev.hasResults
                 THEN CitationsOf(ev.hits, Len(ev.hits)) ELSE <<>>
        dump == Invocation \in ev.markers /\ display_query[query]
    IN  IF kbRaises THEN Raised(acc, CauseKey)
        ELSE [acc EXCEPT
                !.steps = acc.steps \o TraceSteps(ev.markers),
                !.sources = acc.sources \o cites,
                !.msgs = IF dump
                         THEN Append(acc.msgs,
                                     display_aws_resources_for_booking(hasTable, items, dumpOk))
                         ELSE acc.msgs,
                !.scans = IF dump /\ hasTable THEN acc.scans + 1 ELSE acc.scans]

\* an iteration that handles trace events whatever show_infrastructure is
LoopBodyAlwaysTraces(acc, ev, query, show_infrastructure, hasTable, items, dumpOk) ==
    IF acc.raised THEN acc
    ELSE IF ev.kind = "raise" THEN Raised(acc, CauseStream)
    ELSE IF ev.kind = "chunk" THEN
        IF ev.decodes THEN [acc EXCEPT !.result = ChunkResult(acc.result, ev.bytes)]
        ELSE Raised(acc, CauseDecode)
    ELSE IF ev.kind = "trace" THEN
        TraceBody(acc, ev, query, hasTable, items, dumpOk)
    ELSE acc

\* one iteration of the loop of line 676
LoopBody(acc, ev, query, show_infrastructure, hasTable, items, dumpOk) ==
    IF acc.raised THEN acc
    ELSE IF ev.kind = "raise" THEN Raised(acc, CauseStream)
    ELSE IF ev.kind = "chunk" THEN
        IF ev.decodes THEN [acc EXCEPT !.result = ChunkResult(acc.result, ev.bytes)]
        ELSE Raised(acc, CauseDecode)
    ELSE IF ev.kind = "trace" /\ show_infrastructure THEN
        TraceBody(acc, ev, query, hasTable, items, dumpOk)
    ELSE acc

\* the loop of line 676 over the first n events
RECURSIVE Loop(_, _, _, _, _, _, _)
Loop(events, n, query, show_infrastructure, hasTable, items, dumpOk) ==
    IF n = 0 THEN LoopStart
    ELSE LET before == {Loop(events, n - 1, query, show_infrastructure,
                             hasTable, items, dumpOk)}
         IN  CHOOSE after \in {LoopBody(acc, events[n], query, show_infrastructure,
                                        hasTable, items, dumpOk) : acc \in before} : TRUE

\* the system_metrics dict, with the entries the core derives
Metrics(venues_available, bookings_month) ==
    [venues_available |-> venues_available, bookings_month |-> bookings_month]

\* refresh_data_from_db (lines 749-759): the bookings projection and the
\* metrics afterwards, the scans made, and whether line 756 raised
refresh_data_from_db(hasTable, items, scanOk, system_metrics, today) ==
    LET loaded == load_bookings_from_db(hasTable, items, scanOk)
    IN  [bookings |-> loaded.ret,
         system_metrics |->
            IF MonthCountRaises(loaded.ret) THEN system_metrics
            ELSE [system_metrics EXCEPT !.bookings_month = MonthCount(loaded.ret, today)],
         scans |-> loaded.scans,
         raised |-> MonthCountRaises(loaded.ret)]

\* the condition of the first version (line 712): only 'book' asks for a refresh
RefreshWantedBookOnly(query, result) ==
    Contains(Lower(query), KwBook) /\ ~Contains(result, ExecutionErrorMarker)

\* the condition of line 716
RefreshWanted(query, result) ==
    booking_query[query] /\ ~Contains(result, ExecutionErrorMarker)

----------------------------------------------------------------------------
(* State *)

\* st.session_state before the first script run: no key is set.  keys holds
\* the keys that are set; the other fields hold the values of the set keys.
FreshSession ==
    [keys |-> {},
     show_infrastructure |-> FALSE,
     execution_log |-> <<>>,
     venues |-> <<>>,
     bookings |-> EmptyDict,
     revenue_data |-> [dates |-> <<>>, revenue |-> <<>>],
     system_metrics |-> Metrics(0, 0)]

\* no VenueManagementSystem instance yet
\* running: the script run of the instance has not yet reached an st.rerun()
\* or its end
NoApp ==
    [constructed |-> FALSE, running |-> FALSE, connected |-> FALSE, dynamodb |-> FALSE,
     resources |-> FALSE, venues |-> <<>>, system_metrics |-> Metrics(0, 0)]

\* no execute_agent_query call yet in this session
NoCall ==
    [count |-> 0, made |-> FALSE, query |-> <<>>, show_infrastructure |-> FALSE,
     connected |-> FALSE, events |-> <<>>, invokeOk |-> TRUE, dumpOk |-> TRUE,
     refreshOk |-> TRUE, invoked |-> FALSE,
     result |-> <<>>, sources |-> <<>>, steps |-> <<>>,
     msgs |-> <<>>, dumpScans |-> 0, scans |-> 0, loopRaised |-> FALSE,
     refreshed |-> FALSE, refreshRaised |-> FALSE,
     bookingsBefore |-> EmptyDict, logBefore |-> <<>>]

\* a loader call: whether the loader ran, the table it met, its faults, what
\* it returned, and the scans and puts it made
LoadRecord(called, hasDb, before, scanOk, putsOk, ret, scans, puts) ==
    [called |-> called, hasDb |-> hasDb, before |-> before, scanOk |-> scanOk,
     putsOk |-> putsOk, ret |-> ret, scans |-> scans, puts |-> puts]

\* the record of a loader that did not run: the key was cached with `value`
NotCalled(value) == LoadRecord(FALSE, FALSE, {}, TRUE, 0, value, 0, 0)

NoLoads ==
    [venues |-> NotCalled(<<>>),
     bookings |-> NotCalled(EmptyDict),
     revenue |-> NotCalled([dates |-> <<>>, revenue |-> <<>>])]

Init ==
    /\ venuesTable = {}
    /\ bookingsTable = {}
    /\ revenueTable = {}
    /\ now = 89
    /\ st = FreshSession
    /\ app = NoApp
    /\ loads = NoLoads
    /\ call = NoCall

----------------------------------------------------------------------------
(* __init__: setup_aws, init_session_state, init_dynamic_data *)

\* How setup_aws ends: "ok"; "no_config": config.yaml cannot be read, no
\* client exists; "no_resources": created_resources_v4.json cannot be read,
\* self.dynamodb exists and self.resources does not.
SetupOutcomes == {"ok", "no_config", "no_resources"}

\* setup_aws (lines 115-141)
setup_aws(outcome) ==
    [connected |-> outcome = "ok",
     dynamodb |-> outcome # "no_config",
     resources |-> outcome = "ok"]

\* init_session_state (lines 147-157), for the keys the core reads
init_session_state(s) ==
    [s EXCEPT
        !.keys = s.keys \cup {"show_infrastructure", "execution_log"},
        !.show_infrastructure =
            IF "show_infrastructure" \in s.keys THEN s.show_infrastructure ELSE FALSE,
        !.execution_log =
            IF "execution_log" \in s.keys THEN s.execution_log ELSE <<>>]

\* the system_metrics of init_default_data (lines 296-306)
default_metrics == Metrics(4, 1)

\* init_default_data (lines 284-306): the session and the instance fields
init_default_data(s, today) ==
    [st |-> [s EXCEPT
                !.keys = s.keys \cup {"bookings", "revenue_data"},
                !.bookings = IF "bookings" \in s.keys THEN s.bookings ELSE default_bookings,
                !.revenue_data = IF "revenue_data" \in s.keys THEN s.revenue_data
                                 ELSE default_revenue(today)],
     venues |-> get_default_venues,
     system_metrics |-> default_metrics]

\* the faults a loader can meet: whether its scan returns, and how many of
\* its seed puts return (n of n when none raises)
Faults(needed, table, n, scanChoices, putChoices) ==
    IF ~needed THEN {[scanOk |-> TRUE, putsOk |-> n]}
    ELSE {[scanOk |-> FALSE, putsOk |-> n] : ok \in scanChoices \ {TRUE}}
         \cup {[scanOk |-> TRUE, putsOk |-> k] : k \in (IF table = {} THEN putChoices ELSE {n})}

\* a loader result that stands for a key already in st.session_state: the
\* cached value, the table untouched, no scan and no put
Cached(value, table) == [ret |-> value, table |-> table, scans |-> 0, puts |-> 0]

\* init_dynamic_data (lines 159-193).  lv, lb, lr: for each of the keys
\* 'venues', 'bookings', 'revenue_data', the result of its loader when the key
\* is not in s, and Cached(..) of its value when it is.
init_dynamic_data(s, lv, lb, lr, today) ==
    LET s3 == [s EXCEPT !.keys = @ \cup {"venues", "bookings", "revenue_data"},
                        !.venues = lv.ret,
                        !.bookings = lb.ret,
                        !.revenue_data = lr.ret]
        raises == "system_metrics" \notin s3.keys /\ MonthCountRaises(s3.bookings)
        s4 == IF "system_metrics" \in s3.keys THEN s3
              ELSE [s3 EXCEPT !.keys = @ \cup {"system_metrics"},
                              !.system_metrics =
                                  Metrics(Len(s3.venues), MonthCount(s3.bookings, today))]
        dflt == init_default_data(s3, today)
    IN  [st |-> IF raises THEN dflt.st ELSE s4,
         venues |-> IF raises THEN dflt.venues ELSE s3.venues,
         system_metrics |-> IF raises THEN dflt.system_metrics ELSE s4.system_metrics,
         raised |-> raises]

\* the record of a loader call of __init__
LoadOf(key, hasDb, before, scanOk, putsOk, l) ==
    IF key \in st.keys THEN NotCalled(l.ret)
    ELSE LoadRecord(TRUE, hasDb, before, scanOk, putsOk, l.ret, l.scans, l.puts)

\* a script run that loads the venues again though they are cached
ConstructReloadingVenues(outcome, vf, bItems, bScanOk, rf) ==
    \E a \in {setup_aws(outcome)} :
    \E lv \in {load_venues_from_db(a.dynamodb, venuesTable, vf.scanOk, vf.putsOk)},
       lb \in {IF "bookings" \in st.keys THEN Cached(st.bookings, bookingsTable)
               ELSE load_bookings_from_db(a.dynamodb /\ a.resources, bItems, bScanOk)},
       lr \in {IF "revenue_data" \in st.keys THEN Cached(st.revenue_data, revenueTable)
               ELSE load_revenue_from_db(a.dynamodb, revenueTable, rf.scanOk, rf.putsOk, now)} :
    \E d \in {init_dynamic_data(init_session_state(st), lv, lb, lr, now)} :
        /\ st' = d.st
        /\ app' = [constructed |-> TRUE, running |-> TRUE, connected |-> a.connected,
                   dynamodb |-> a.dynamodb, resources |-> a.resources,
                   venues |-> d.venues, system_metrics |-> d.system_metrics]
        /\ venuesTable' = lv.table
        /\ revenueTable' = lr.table
        /\ loads' = [venues |-> LoadOf("venues", a.dynamodb, venuesTable,
                                       vf.scanOk, vf.putsOk, lv),
                     bookings |-> LoadOf("bookings", a.dynamodb /\ a.resources,
                                         bookingsTable, bScanOk, 0, lb),
                     revenue |-> LoadOf("revenue_data", a.dynamodb, revenueTable,
                                        rf.scanOk, rf.putsOk, lr)]
        /\ call' = [NoCall EXCEPT !.count = call.count]
        /\ UNCHANGED <<bookingsTable, now>>

\* one script run up to the end of __init__ (lines 110-113); the values that
\* the previous script run got from execute_agent_query are gone
Construct(outcome, vf, bItems, bScanOk, rf) ==
    \E a \in {setup_aws(outcome)} :
    \E lv \in {IF "venues" \in st.keys THEN Cached(st.venues, venuesTable)
               ELSE load_venues_from_db(a.dynamodb, venuesTable, vf.scanOk, vf.putsOk)},
       lb \in {IF "bookings" \in st.keys THEN Cached(st.bookings, bookingsTable)
               ELSE load_bookings_from_db(a.dynamodb /\ a.resources, bItems, bScanOk)},
       lr \in {IF "revenue_data" \in st.keys THEN Cached(st.revenue_data, revenueTable)
               ELSE load_revenue_from_db(a.dynamodb, revenueTable, rf.scanOk, rf.putsOk, now)} :
    \E d \in {init_dynamic_data(init_session_state(st), lv, lb, lr, now)} :
        /\ st' = d.st
        /\ app' = [constructed |-> TRUE, running |-> TRUE, connected |-> a.connected,
                   dynamodb |-> a.dynamodb, resources |-> a.resources,
                   venues |-> d.venues, system_metrics |-> d.system_metrics]
        /\ venuesTable' = lv.table
        /\ revenueTable' = lr.table
        /\ loads' = [venues |-> LoadOf("venues", a.dynamodb, venuesTable,
                                       vf.scanOk, vf.putsOk, lv),
                     bookings |-> LoadOf("bookings", a.dynamodb /\ a.resources,
                                         bookingsTable, bScanOk, 0, lb),
                     revenue |-> LoadOf("revenue_data", a.dynamodb, revenueTable,
                                        rf.scanOk, rf.putsOk, lr)]
        /\ call' = [NoCall EXCEPT !.count = call.count]
        /\ UNCHANGED <<bookingsTable, now>>

----------------------------------------------------------------------------
(* execute_agent_query (lines 653-722) *)

\* the call record of a query
CallRecord(in, invoked, result, sources, steps, msgs, dumpScans, scans, loopRaised, refreshed, refreshRaised) ==
    [count |-> call.count + 1, made |-> TRUE, query |-> in.query,
     show_infrastructure |-> st.show_infrastructure, connected |-> app.connected,
     events |-> in.events, invokeOk |-> in.invokeOk, dumpOk |-> in.dumpOk,
     refreshOk |-> in.refreshOk, invoked |-> invoked,
     result |-> result, sources |-> sources, steps |-> steps,
     msgs |-> msgs, dumpScans |-> dumpScans, scans |-> scans,
     loopRaised |-> loopRaised, refreshed |-> refreshed,
     refreshRaised |-> refreshRaised,
     bookingsBefore |-> st.bookings, logBefore |-> st.execution_log]

\* the inputs of a call: the query, the agent's answer and the store's faults
CallInputs(query, events, invokeOk, dumpOk, refreshOk) ==
    [query |-> query, events |-> events, invokeOk |-> invokeOk, dumpOk |-> dumpOk,
     refreshOk |-> refreshOk]

\* the log after the append of lines 658-661
LogAppend(log, query) == Append(log, [timestamp |-> now, query |-> query])

\* a call without the guard of line 654: invoke_agent on the missing client raises
QueryDisconnectedInvokes(in) ==
    /\ call' = CallRecord(in, TRUE, ExecutionError(CauseInvoke), <<>>, <<>>, <<>>,
                          0, 0, FALSE, FALSE, FALSE)
    /\ st' = [st EXCEPT !.execution_log = LogAppend(@, in.query)]
    /\ app' = [app EXCEPT !.running = FALSE]

\* the early return of lines 654-655
QueryDisconnected(in) ==
    /\ call' = CallRecord(in, FALSE, SystemErrorText, <<>>, <<>>, <<>>, 0, 0,
                          FALSE, FALSE, FALSE)
    /\ st' = st
    /\ app' = [app EXCEPT !.running = FALSE]

\* the except branch of line 722 for an invoke_agent that raises
QueryInvokeRaises(in) ==
    /\ st' = [st EXCEPT !.execution_log = LogAppend(@, in.query)]
    /\ call' = CallRecord(in, TRUE, ExecutionError(CauseInvoke), <<>>, <<>>, <<>>,
                          0, 0, FALSE, FALSE, FALSE)
    /\ app' = [app EXCEPT !.running = FALSE]

\* lines 672-722 once invoke_agent has returned a stream
QueryStream(in, items) ==
    \E acc \in {Loop(in.events, Len(in.events), in.query, st.show_infrastructure,
                      app.dynamodb /\ app.resources, items, in.dumpOk)},
       r \in {refresh_data_from_db(app.dynamodb /\ app.resources, items, in.refreshOk,
                                   app.system_metrics, now)} :
    LET refresh == ~acc.raised /\ RefreshWanted(in.query, acc.result)
        logged == [st EXCEPT !.execution_log = LogAppend(@, in.query)]
    IN  /\ st' = IF refresh
                 THEN [logged EXCEPT
                         !.bookings = r.bookings,
                         !.system_metrics = IF "system_metrics" \in st.keys
                                            THEN r.system_metrics ELSE @]
                 ELSE logged
        /\ app' = IF refresh
                  THEN [app EXCEPT !.running = FALSE, !.system_metrics = r.system_metrics]
                  ELSE [app EXCEPT !.running = FALSE]
        /\ call' = IF acc.raised
                   THEN CallRecord(in, TRUE, ExecutionError(acc.cause), <<>>, <<>>,
                                   acc.msgs, acc.scans, acc.scans, TRUE, FALSE, FALSE)
                   ELSE CallRecord(in, TRUE, acc.result, acc.sources, acc.steps,
                                   acc.msgs, acc.scans,
                                   acc.scans + (IF refresh THEN r.scans ELSE 0),
                                   FALSE, refresh, refresh /\ r.raised)

\* execute_agent_query(query) against an agent that answers with `events`
\* (invokeOk: invoke_agent returns), with the bookings table scanned in the
\* order `items` (dumpOk, refreshOk: the scans of the resource display and of
\* the refresh return); its caller ends the script run with st.rerun() (line 364)
execute_agent_query(query, events, invokeOk, items, dumpOk, refreshOk) ==
    /\ app.running
    /\ LET in == CallInputs(query, events, invokeOk, dumpOk, refreshOk)
       IN  IF ~app.connected THEN QueryDisconnected(in)
           ELSE IF ~invokeOk THEN QueryInvokeRaises(in)
           ELSE QueryStream(in, items)
    /\ UNCHANGED <<venuesTable, bookingsTable, revenueTable, now, loads>>

----------------------------------------------------------------------------
(* The operator and the environment *)

\* the checkbox "Show AWS Details" (lines 394-395), read after the chat input
\* of the same script run brought no query; the script run then ends
ToggleInfrastructure ==
    /\ app.running
    /\ st' = [st EXCEPT !.show_infrastructure = ~@]
    /\ app' = [app EXCEPT !.running = FALSE]
    /\ UNCHANGED <<venuesTable, bookingsTable, revenueTable, now, loads, call>>

\* a new browser session: a fresh st.session_state
NewSession ==
    /\ app.constructed
    /\ st' = FreshSession
    /\ app' = NoApp
    /\ loads' = NoLoads
    /\ call' = NoCall
    /\ UNCHANGED <<venuesTable, bookingsTable, revenueTable, now>>

\* the agent's function stores a booking in its table
AgentWritesBooking(b) ==
    /\ b \notin bookingsTable
    /\ Cardinality(bookingsTable) < MaxBookings
    /\ bookingsTable' = put_item(bookingsTable, "booking_id", b)
    /\ UNCHANGED <<venuesTable, revenueTable, now, st, app, loads, call>>

----------------------------------------------------------------------------
(* Inputs *)

\* chunk payloads; the last one carries the error marker in the agent's text
TextDone == <<"D","o","n","e">>
TextBooked == <<"B","o","o","k","e","d",".">>
TextFailed == <<"L","a","m","b","d","a"," ">> \o ExecutionErrorMarker
Payloads == {TextDone, TextBooked, TextFailed}

\* hit texts: shorter than, as long as, and longer than the snippet bound
TextOfLen(n) == [i \in 1..n |-> IF i % 2 = 1 THEN "a" ELSE "b"]
HitShort == Hit(TRUE, <<"f","a","q">>, 87, TRUE, "s3://kb/policies.pdf")
HitExact == Hit(TRUE, TextOfLen(SnippetLen), 100, FALSE, "")
HitLong == Hit(TRUE, TextOfLen(SnippetLen + ExtraLen), 0, TRUE, "s3://kb/pricing.pdf")
HitNoText == Hit(FALSE, <<>>, 50, FALSE, "")
HitLists ==
    {<<>>, <<HitShort>>, <<HitExact>>, <<HitLong>>, <<HitNoText>>,
     <<HitShort, HitLong>>, <<HitLong, HitShort>>, <<HitShort, HitShort>>,
     <<HitShort, HitNoText>>}

\* the marker sets of the trace events: no marker, each marker, each pair
\* of markers, and all five
MarkerSets == {m \in SUBSET KnownMarkers : Cardinality(m) <= 2 \/ m = KnownMarkers}

\* the events of a response stream
Events ==
    {ChunkEvent(p) : p \in Payloads}
    \cup {BadChunkEvent, OtherEvent, RaiseEvent}
    \cup {TraceEvent(m, FALSE, <<>>) : m \in MarkerSets}
    \cup {TraceEvent({"guardrailTrace"}, FALSE, <<>>),
          TraceEvent({"failureTrace", Orchestration}, FALSE, <<>>)}
    \cup {TraceEvent({KnowledgeBase}, TRUE, h) : h \in HitLists}

\* the streams of at most MaxEvents events
Streams == UNION {[1..k -> Events] : k \in 0..MaxEvents}

\* the streams of the session specification
SessionStreams ==
    {<<ChunkEvent(TextDone)>>,
     <<ChunkEvent(TextFailed)>>,
     <<TraceEvent({Invocation}, FALSE, <<>>), ChunkEvent(TextBooked)>>,
     <<TraceEvent({Invocation}, FALSE, <<>>), RaiseEvent>>,
     <<ChunkEvent(TextDone), BadChunkEvent>>,
     <<TraceEvent({KnowledgeBase}, TRUE, <<HitNoText>>), ChunkEvent(TextDone)>>,
     <<TraceEvent({Invocation}, FALSE, <<>>),
       TraceEvent({Invocation, PostProcessing}, FALSE, <<>>)>>}

\* the scan outcomes that a call can tell apart
DumpChoices(query, events) ==
    IF /\ app.connected /\ st.show_infrastructure
       /\ display_query[query]
       /\ \E i \in 1..Len(events) : Invocation \in events[i].markers
    THEN BOOLEAN ELSE {TRUE}
RefreshChoices(query) ==
    IF app.connected /\ booking_query[query] THEN BOOLEAN ELSE {TRUE}
OrderChoices(query) ==
    IF app.connected /\ (booking_query[query] \/ display_query[query])
    THEN ScanOrders(bookingsTable) ELSE {Scan(bookingsTable)}

\* a query out of `queries` against any answer of the agent out of `streams`,
\* with the scan outcomes out of `oks`
Query(queries, streams, oks) ==
    \E query \in queries :
        \/ /\ app.connected
           /\ execute_agent_query(query, <<>>, FALSE, <<>>, TRUE, TRUE)
        \/ \E events \in (IF app.connected THEN streams ELSE {<<>>}),
              items \in OrderChoices(query),
              refreshOk \in RefreshChoices(query) \cap oks :
                \E dumpOk \in DumpChoices(query, events) \cap oks :
                    execute_agent_query(query, events, TRUE, items, dumpOk, refreshOk)

\* a script run, with setup_aws ending in one of `outcomes`, the scans
\* returning or raising as `scanChoices` allows, and the seed puts of venues
\* and revenue returning `vPuts` and `rPuts` times
Run(outcomes, scanChoices, vPuts, rPuts) ==
    \E outcome \in outcomes,
       vf \in Faults("venues" \notin st.keys, venuesTable, Len(default_venues),
                     scanChoices, vPuts),
       rf \in Faults("revenue_data" \notin st.keys, revenueTable, SeedDays,
                     scanChoices, rPuts),
       bItems \in (IF "bookings" \in st.keys THEN {Scan(bookingsTable)}
                   ELSE ScanOrders(bookingsTable)),
       bScanOk \in (IF "bookings" \in st.keys THEN {TRUE} ELSE scanChoices) :
        Construct(outcome, vf, bItems, bScanOk, rf)

----------------------------------------------------------------------------
(* The session specification: the script runs, queries and toggles of      *)
(* sessions against a store that answers, and the agent's writes.          *)

SessionRun == Run(SetupOutcomes, {TRUE}, {Len(default_venues)}, {SeedDays})

SessionQuery == call.count < MaxLog /\ Query(Queries, SessionStreams, BOOLEAN)

Next ==
    \/ SessionRun
    \/ SessionQuery
    \/ ToggleInfrastructure
    \/ NewSession
    \/ \E b \in BookingRecords : AgentWritesBooking(b)

Spec == Init /\ [][Next]_vars

----------------------------------------------------------------------------
(* The loader specification: the script runs of sessions that follow one   *)
(* another against a store whose scans and puts can raise.                 *)

LoadInit ==
    /\ venuesTable \in {{}, {OtherVenue}}
    /\ bookingsTable \in SUBSET BookingRecords
    /\ revenueTable \in {{}, {OtherRevenue}}
    /\ now = 89
    /\ st = FreshSession
    /\ app = NoApp
    /\ loads = NoLoads
    /\ call = NoCall

LoadRun == Run(SetupOutcomes, BOOLEAN, {0, 2, Len(default_venues)}, {0, 1, SeedDays})

LoadNext ==
    \/ LoadRun
    \/ NewSession

LoadSpec == LoadInit /\ [][LoadNext]_vars

----
(* The single-call specification: the first query of a session, put to a   *)
(* connected or disconnected instance, against every stream of at most     *)
(* MaxEvents events, with a store that answers.                            *)

StreamInit ==
    /\ venuesTable = {OtherVenue}
    /\ bookingsTable = {b \in BookingRecords : b.booking_id = "B1"}
    /\ revenueTable = {OtherRevenue}
    /\ now = 89
    /\ \E outcome \in {"ok", "no_config"}, show \in BOOLEAN :
         LET a == setup_aws(outcome)
             s == [init_session_state(FreshSession) EXCEPT !.show_infrastructure = show]
             lv == load_venues_from_db(a.dynamodb, venuesTable, TRUE, 0)
             lb == load_bookings_from_db(a.dynamodb /\ a.resources, Scan(bookingsTable), TRUE)
             lr == load_revenue_from_db(a.dynamodb, revenueTable, TRUE, 0, 89)
             d == init_dynamic_data(s, lv, lb, lr, 89)
         IN  /\ st = d.st
             /\ app = [constructed |-> TRUE, running |-> TRUE, connected |-> a.connected,
                       dynamodb |-> a.dynamodb, resources |-> a.resources,
                       venues |-> d.venues, system_metrics |-> d.system_metrics]
             /\ loads = [venues |-> LoadRecord(TRUE, a.dynamodb, venuesTable, TRUE, 0,
                                                lv.ret, lv.scans, lv.puts),
                          bookings |-> LoadRecord(TRUE, a.dynamodb /\ a.resources,
                                                  bookingsTable, TRUE, 0,
                                                  lb.ret, lb.scans, lb.puts),
                          revenue |-> LoadRecord(TRUE, a.dynamodb, revenueTable, TRUE, 0,
                                                 lr.ret, lr.scans, lr.puts)]
    /\ call = NoCall

FirstQuery == call.count = 0 /\ Query(Queries, Streams, {TRUE})

StreamNext == FirstQuery

StreamSpec == StreamInit /\ [][StreamNext]_vars

----------------------------------------------------------------------------
(* The cache specification: the script runs and queries of sessions while  *)
(* other writers change the venues and the revenue table.                  *)

\* somebody else stores a venue or a revenue row
OtherWritesStore ==
    /\ \/ /\ OtherVenue \notin venuesTable
          /\ venuesTable' = put_item(venuesTable, "venue_id", OtherVenue)
          /\ UNCHANGED revenueTable
       \/ /\ OtherRevenue \notin revenueTable
          /\ revenueTable' = put_item(revenueTable, "date", OtherRevenue)
          /\ UNCHANGED venuesTable
    /\ UNCHANGED <<bookingsTable, now, st, app, loads, call>>

CacheQuery ==
    /\ call.count < MaxLog
    /\ Query({QBook, QHours}, {<<ChunkEvent(TextDone)>>}, BOOLEAN)

CacheNext ==
    \/ SessionRun
    \/ CacheQuery
    \/ NewSession
    \/ OtherWritesStore
    \/ \E b \in BookingRecords : AgentWritesBooking(b)

CacheSpec == Init /\ [][CacheNext]_vars

----------------------------------------------------------------------------
(* The claims about execute_agent_query *)

\* s starts with p
StartsWith(s, p) == Len(s) >= Len(p) /\ [i \in 1..Len(p) |-> s[i]] = p

\* the stream raises while it is consumed: its iterator raises, a text chunk
\* does not decode, or (trace captured) a retrieval hit has no text
StreamFails(events, traced) ==
    \E i \in 1..Len(events) :
        \/ events[i].kind = "raise"
        \/ events[i].kind = "chunk" /\ ~events[i].decodes
        \/ /\ traced /\ events[i].kind = "trace"
           /\ KnowledgeBase \in events[i].markers /\ events[i].hasResults
           /\ \E h \in 1..Len(events[i].hits) : ~events[i].hits[h].hasText

\* the payloads of the text chunks of a stream
ChunkTexts(events) ==
    {events[i].bytes : i \in {j \in 1..Len(events) : events[j].kind = "chunk"}}

\* the last call was made while connected and nothing failed in it
Answered ==
    /\ call.made /\ call.connected /\ call.invokeOk
    /\ ~StreamFails(call.events, call.show_infrastructure)

\* C1: a connected call always returns: when invoke_agent, the iteration of
\* the stream or the decoding of an event fails, the result is
\* "EXECUTION ERROR: " + cause with no citations and no steps, whatever was
\* collected before; when none of them fails, the result is a text of the
\* stream and no error, also when the scan of the refresh or of the resource
\* display fails.
C1_FailureIsReturned ==
    call.made /\ call.connected =>
        /\ ~call.invokeOk \/ StreamFails(call.events, call.show_infrastructure) =>
              /\ StartsWith(call.result, ExecutionError(<<>>))
              /\ call.result \in {ExecutionError(c) :
                                    c \in {CauseInvoke, CauseStream, CauseDecode, CauseKey}}
              /\ call.sources = <<>>
              /\ call.steps = <<>>
        /\ Answered =>
              /\ call.result \in ChunkTexts(call.events) \cup {<<>>}
              /\ ~StartsWith(call.result, ExecutionError(<<>>))

\* a traced stream that raised after a trace event had given steps
C1_Witness ==
    /\ call.made /\ call.connected /\ call.show_infrastructure
    /\ Len(call.events) = 2
    /\ call.events[1].kind = "trace" /\ Invocation \in call.events[1].markers
    /\ call.events[2].kind = "raise"
    /\ call.result = ExecutionError(CauseStream)
    /\ call.steps = <<>>

\* C2: a call made while the client is not connected returns the fixed text
\* "SYSTEM ERROR: Agent connection unavailable" with no citations and no
\* steps for every query, calls no agent, scans no table and leaves the
\* bookings of the session as they were.
C2_DisconnectedAnswer ==
    call.made /\ ~call.connected =>
        /\ call.result = SystemErrorText
        /\ call.sources = <<>>
        /\ call.steps = <<>>
        /\ ~call.invoked
        /\ call.scans = 0 /\ call.msgs = <<>>
        /\ st.bookings = call.bookingsBefore

\* a booking query made while disconnected
C2_Witness ==
    /\ call.made /\ ~call.connected
    /\ call.query = QBook
    /\ call.result = SystemErrorText

\* C3: every call appends its query to the log exactly once, also a call made
\* while disconnected and a call whose invoke_agent raises: the log is as long
\* as the number of calls of the session, and a call leaves the earlier
\* entries as they were, followed by its own.
C3_EveryQueryLogged ==
    /\ Len(st.execution_log) = call.count
    /\ call.made =>
          st.execution_log = Append(call.logBefore,
                                    [timestamp |-> now, query |-> call.query])

\* the payloads of the text chunks among the first n events, concatenated
RECURSIVE ChunkConcat(_, _)
ChunkConcat(events, n) ==
    IF n = 0 THEN <<>>
    ELSE ChunkConcat(events, n - 1)
         \o (IF events[n].kind = "chunk" THEN events[n].bytes ELSE <<>>)

\* C4: the result of a call is the concatenation of the payloads of all text
\* chunks of the stream in the order of delivery.
C4_ResultIsConcatenation ==
    Answered => call.result = ChunkConcat(call.events, Len(call.events))

\* the marker-to-step table, in the order in which one event contributes
StepTable ==
    << [marker |-> PreProcessing, steps |-> <<StepPre>>],
       [marker |-> Orchestration, steps |-> <<StepOrch>>],
       [marker |-> KnowledgeBase, steps |-> <<StepKB>>],
       [marker |-> Invocation, steps |-> <<StepLambda, StepDynamo>>],
       [marker |-> PostProcessing, steps |-> <<StepPost>>] >>

\* the steps of the rows 1..k of the table for an event with `markers`
RECURSIVE TableSteps(_, _)
TableSteps(markers, k) ==
    IF k = 0 THEN <<>>
    ELSE TableSteps(markers, k - 1)
         \o (IF StepTable[k].marker \in markers THEN StepTable[k].steps ELSE <<>>)

\* the steps of the trace events among the first n events
RECURSIVE ExpectedSteps(_, _)
ExpectedSteps(events, n) ==
    IF n = 0 THEN <<>>
    ELSE ExpectedSteps(events, n - 1)
         \o (IF events[n].kind = "trace"
             THEN TableSteps(events[n].markers, Len(StepTable)) ELSE <<>>)

\* C5: with trace captured, the returned steps are the concatenation in
\* arrival order of the steps of each trace event, an event giving in this
\* order one PRE-PROCESSING, one ORCHESTRATION, one KNOWLEDGE BASE, the two
\* steps LAMBDA and DYNAMODB, and one POST-PROCESSING step for the markers
\* it carries; steps repeat when events repeat, whatever the events hold.
C5_StepsFollowTable ==
    Answered /\ call.show_infrastructure =>
        call.steps = ExpectedSteps(call.events, Len(call.events))

\* two trace events that both carry the invocation marker: four steps
C5_Witness ==
    /\ Answered /\ call.show_infrastructure
    /\ Len(call.events) = 2
    /\ \A i \in 1..2 : call.events[i].kind = "trace"
                       /\ call.events[i].markers = {Invocation}
    /\ call.steps = <<StepLambda, StepDynamo, StepLambda, StepDynamo>>

\* C6: without trace capture the result is still a text of the chunks, the
\* steps and the citations are empty whatever trace events the stream holds,
\* and the resource display is not run; steps are returned only when trace
\* was captured.
C6_NoTraceNoSteps ==
    /\ call.made /\ call.connected /\ ~call.show_infrastructure =>
          /\ call.steps = <<>>
          /\ call.sources = <<>>
          /\ call.msgs = <<>> /\ call.dumpScans = 0
          /\ Answered /\ ChunkTexts(call.events) # {} =>
                call.result \in ChunkTexts(call.events)
    /\ call.steps # <<>> => call.show_infrastructure

\* a display query without trace capture whose stream holds an invocation
\* trace and a text chunk
C6_Witness ==
    /\ Answered /\ ~call.show_infrastructure
    /\ call.query = QBook
    /\ \E i \in 1..Len(call.events) :
          call.events[i].kind = "trace" /\ Invocation \in call.events[i].markers
    /\ call.result = TextDone

\* the six step texts of the code
KnownSteps == {StepPre, StepOrch, StepKB, StepLambda, StepDynamo, StepPost}

\* C7: with trace captured, a trace event that carries none of the five
\* known markers, or a marker that is not known, gives a step of its own
\* ("unclassified") in the returned steps.
C7_UnknownMarkerGivesStep ==
    Answered /\ call.show_infrastructure =>
        \A i \in 1..Len(call.events) :
            /\ call.events[i].kind = "trace"
            /\ \/ call.events[i].markers \cap KnownMarkers = {}
               \/ call.events[i].markers \ KnownMarkers # {}
            => \E j \in 1..Len(call.steps) : call.steps[j] \notin KnownSteps

\* the citation the claim describes for one retrieval hit
ExpectedCitation(hit) ==
    [content |-> (IF Len(hit.text) <= SnippetLen THEN hit.text
                  ELSE [i \in 1..SnippetLen |-> hit.text[i]]) \o <<".", ".", ".">>,
     score |-> hit.score,
     source |-> IF hit.hasUri THEN hit.uri ELSE "Knowledge Base"]

\* the citations of the retrieval events among the first n events
RECURSIVE ExpectedCitations(_, _)
ExpectedCitations(events, n) ==
    IF n = 0 THEN <<>>
    ELSE ExpectedCitations(events, n - 1)
         \o (IF /\ events[n].kind = "trace" /\ KnowledgeBase \in events[n].markers
                /\ events[n].hasResults
             THEN [h \in 1..Len(events[n].hits) |-> ExpectedCitation(events[n].hits[h])]
             ELSE <<>>)

\* C8: with trace captured, each retrieval event gives one citation per hit,
\* in the order of the hits and of the events; the snippet is the first 200
\* characters of the text of the hit followed by "..." (203 characters at
\* most), the score is the score of the hit, and the source is the URI of
\* the hit, or "Knowledge Base" when the hit has none.
C8_OneCitationPerHit ==
    Answered /\ call.show_infrastructure =>
        /\ call.sources = ExpectedCitations(call.events, Len(call.events))
        /\ \A j \in 1..Len(call.sources) :
              Len(call.sources[j].content) <= SnippetLen + 3

\* a retrieval event with a hit longer than the bound and a short hit
C8_Witness ==
    /\ Answered /\ call.show_infrastructure
    /\ \E i \in 1..Len(call.events) : call.events[i].hits = <<HitLong, HitShort>>
    /\ Len(call.sources) = 2
    /\ Len(call.sources[1].content) = SnippetLen + 3
    /\ call.sources[2].source = HitShort.uri

----------------------------------------------------------------------------
(* The claims about the loaders *)

\* the rows of a sequence
Range(f) == {f[i] : i \in DOMAIN f}

\* the loader met a table whose scan returned no item
EmptyScan(l) == l.called /\ l.hasDb /\ l.scanOk /\ l.before = {}

\* the seed rows of revenue as the loader returns them
SeedReturn ==
    [dates |-> [k \in 1..SeedDays |-> now - SeedDays + k],
     revenue |-> [k \in 1..SeedDays |-> SeedRows(now)[k].revenue]]

\* C9 as stated: for venues, bookings and revenue, a loader whose scan returns
\* no record writes the seed set of its kind to the table and returns it, and
\* the table holds records afterwards.
C9_EveryKindSeeds ==
    /\ EmptyScan(loads.venues) =>
          /\ loads.venues.ret = default_venues
          /\ venuesTable # {}
    /\ EmptyScan(loads.bookings) =>
          /\ DOMAIN loads.bookings.ret # {}
          /\ bookingsTable # {}
    /\ EmptyScan(loads.revenue) =>
          /\ loads.revenue.ret = SeedReturn
          /\ revenueTable # {}

\* C9 (amended): for venues and for revenue, a loader whose scan returns no
\* record and whose seed puts all return writes the seed set of its kind to
\* the table and returns it, and the table holds the seed set afterwards;
\* the loader of bookings has no seed set: on a scan without records it
\* writes nothing and returns no booking.
C9_VenuesAndRevenueSeed ==
    /\ EmptyScan(loads.venues) /\ loads.venues.putsOk = Len(default_venues) =>
          /\ loads.venues.ret = default_venues
          /\ loads.venues.puts = Len(default_venues)
          /\ venuesTable = Range(default_venues)
          /\ venuesTable # {}
    /\ EmptyScan(loads.revenue) /\ loads.revenue.putsOk = SeedDays =>
          /\ loads.revenue.ret = SeedReturn
          /\ loads.revenue.puts = SeedDays
          /\ revenueTable = Range(SeedRows(now))
          /\ Cardinality(revenueTable) = SeedDays
    /\ EmptyScan(loads.bookings) =>
          /\ loads.bookings.ret = EmptyDict
          /\ loads.bookings.puts = 0
          /\ bookingsTable = {}

\* a script run whose three loaders all met an empty table, with no put raising
C9_Witness ==
    /\ EmptyScan(loads.venues) /\ loads.venues.putsOk = Len(default_venues)
    /\ EmptyScan(loads.revenue) /\ loads.revenue.putsOk = SeedDays
    /\ EmptyScan(loads.bookings)
    /\ Cardinality(venuesTable) = Len(default_venues)

\* C10: a loader whose scan returns a record puts nothing; and whatever loads
\* were made, by several sessions or after a seed attempt that failed
\* part-way, a table never holds two rows for one seed record and holds the
\* whole seed set once a seed put has been made.
C10_BootstrapIdempotent ==
    /\ \A l \in {loads.venues, loads.bookings, loads.revenue} :
          l.called /\ l.hasDb /\ l.scanOk /\ l.before # {} => l.puts = 0
    /\ \A r1, r2 \in venuesTable : r1.venue_id = r2.venue_id => r1 = r2
    /\ \A r1, r2 \in revenueTable : r1.date = r2.date => r1 = r2
    /\ loads.venues.puts > 0 \/ venuesTable \cap Range(default_venues) # {} =>
          Range(default_venues) \subseteq venuesTable
    /\ loads.revenue.puts > 0 \/ revenueTable \cap Range(SeedRows(now)) # {} =>
          Range(SeedRows(now)) \subseteq revenueTable

----------------------------------------------------------------------------
(* The claims about the fallback of the loaders *)

\* the scan of the loader raised, or one of its seed puts did, or there was
\* no client to scan with
LoadRaised(l, n) ==
    /\ l.called
    /\ \/ ~l.hasDb
       \/ ~l.scanOk
       \/ l.before = {} /\ l.putsOk < n

\* C11: a loader whose scan or seed put raises, or that has no store client,
\* returns the constant set of its kind and raises nothing; for venues this
\* is the list Grand Ballroom, Conference Room A, Garden Terrace, Executive
\* Board, in this order.
C11_FallbackOnFailure ==
    /\ LoadRaised(loads.venues, 4) =>
          /\ Len(loads.venues.ret) = 4
          /\ [i \in 1..4 |-> loads.venues.ret[i].name]
                = <<"Grand Ballroom", "Conference Room A", "Garden Terrace",
                    "Executive Board">>
          /\ [i \in 1..4 |-> loads.venues.ret[i].capacity] = <<200, 50, 100, 20>>
          /\ [i \in 1..4 |-> loads.venues.ret[i].price] = <<2500, 800, 1200, 600>>
    /\ loads.bookings.called /\ (~loads.bookings.hasDb \/ ~loads.bookings.scanOk) =>
          /\ DOMAIN loads.bookings.ret = {<<2025, 3, 5>>}
          /\ loads.bookings.ret[<<2025, 3, 5>>]
                = <<"Conference Room A", "ABC Corp", "Meeting">>
    /\ LoadRaised(loads.revenue, 30) =>
          /\ loads.revenue.ret.dates = [k \in 1..30 |-> now - 31 + k]
          /\ loads.revenue.ret.revenue = [k \in 1..30 |-> 1950 + 50 * k]

\* the venues loader met an empty table and its third seed put raised
C11_Witness ==
    /\ loads.venues.called /\ loads.venues.hasDb /\ loads.venues.scanOk
    /\ loads.venues.before = {} /\ loads.venues.putsOk = 2
    /\ Cardinality(venuesTable) = 2
    /\ Len(loads.venues.ret) = 4
    /\ loads.bookings.called /\ ~loads.bookings.scanOk

----------------------------------------------------------------------------
(* The claims about the refresh after a query *)

\* the query holds, in any case of its letters, one of the words
HasWord(query, words) == \E w \in words : Contains(Lower(query), w)

\* the words that ask for a refresh, and those that ask for the resource display
RefreshWords ==
    { <<"b","o","o","k">>, <<"r","e","s","e","r","v","e">>,
      <<"s","c","h","e","d","u","l","e">>,
      <<"c","r","e","a","t","e"," ","b","o","o","k","i","n","g">> }
DumpWords ==
    { <<"b","o","o","k">>, <<"c","r","e","a","t","e">>, <<"r","e","s","e","r","v","e">> }

\* for each query of the model, whether it holds a refresh word and whether
\* it holds a display word
RefreshWordIn == [q \in Queries |-> HasWord(q, RefreshWords)]
DumpWordIn == [q \in Queries |-> HasWord(q, DumpWords)]

\* the last call asked for a refresh and ended with a result without the
\* error marker
RefreshDue ==
    /\ Answered
    /\ RefreshWordIn[call.query]
    /\ ~Contains(call.result, <<"E","X","E","C","U","T","I","O","N"," ","E","R","R","O","R">>)

\* the trace events of the stream that carry the invocation marker
InvocationEvents(events) ==
    {i \in 1..Len(events) : events[i].kind = "trace" /\ Invocation \in events[i].markers}

\* C12 as stated: a connected call refreshes the bookings exactly when its
\* query holds a refresh word and it ended with a result without the error
\* marker; such a call scans the store once, whatever the trace, and every
\* other call scans nothing.
C12_OneScanOrNone ==
    call.made /\ call.connected =>
        /\ call.refreshed <=> RefreshDue
        /\ RefreshDue => call.scans = 1
        /\ ~RefreshDue => call.scans = 0

\* C12 (amended): a connected call refreshes the bookings exactly when its
\* query holds a refresh word and it ended with a result without the error
\* marker; the refresh scans the store once and every other call makes no
\* refresh scan; the other scans of a call are those of the resource
\* display: none without trace capture or without a display word in the
\* query, and one for each invocation trace event otherwise.
C12_RefreshScansOnce ==
    call.made /\ call.connected =>
        /\ call.refreshed <=> RefreshDue
        /\ call.scans - call.dumpScans = (IF RefreshDue THEN 1 ELSE 0)
        /\ ~call.show_infrastructure \/ ~DumpWordIn[call.query] =>
              call.dumpScans = 0
        /\ Answered /\ call.show_infrastructure /\ DumpWordIn[call.query] =>
              call.dumpScans = Cardinality(InvocationEvents(call.events))

\* a traced booking query with an invocation event: the scan of the display
\* and the scan of the refresh
C12_Witness ==
    /\ RefreshDue /\ call.show_infrastructure
    /\ call.query = QBook
    /\ Cardinality(InvocationEvents(call.events)) = 1
    /\ call.refreshed
    /\ call.scans = 2

\* something failed in the refresh of the last call: the scan of the
\* bookings raised, or the count of the bookings of the month did
RefreshFailed == call.made /\ call.refreshed /\ (~call.refreshOk \/ call.refreshRaised)

\* C13: when the scan or the count of the month raises during the refresh of
\* a call, nothing is raised to the caller and the bookings of the session
\* after the call are those before it.
C13_StaleCacheKept ==
    RefreshFailed => st.bookings = call.bookingsBefore

----------------------------------------------------------------------------
(* The claims about the session cache *)

\* a step of a session that has `key` cached, and that is no start of a new
\* session, keeps the cached value and makes no scan for it
KeepsCached(key, old, new, load) ==
    key \in st.keys /\ st'.keys # {} =>
        /\ new = old
        /\ loads' = loads \/ load.scans = 0

\* C14: in one session the venues table and the revenue table are scanned at
\* most once each, whatever script runs and queries follow; once venues and
\* revenue are cached, no query, refresh or script run changes them, also
\* when the tables change.
C14_LoadedOncePerSession ==
    [][ /\ loads'.venues.scans <= 1 /\ loads'.revenue.scans <= 1
        /\ KeepsCached("venues", st.venues, st'.venues, loads'.venues)
        /\ KeepsCached("revenue_data", st.revenue_data, st'.revenue_data, loads'.revenue)
      ]_vars

\* a script run that met its venues cached while the table holds a venue
\* the cache does not, after a query that refreshed the bookings
C14_Witness ==
    /\ app.running /\ ~loads.venues.called
    /\ "venues" \in st.keys /\ "revenue_data" \in st.keys
    /\ OtherVenue \in venuesTable
    /\ \A i \in 1..Len(st.venues) : st.venues[i] # OtherVenue
    /\ OtherRevenue \in revenueTable
    /\ Len(st.revenue_data.dates) = SeedDays
    /\ call.count > 0

\* C15: the cached revenue always holds 30 samples in ascending order of
\* date, with as many dates as amounts, whether it came from a table with
\* rows (however many), from the seeding of an empty table, or from the
\* fallback.
C15_ThirtySamples ==
    "revenue_data" \in st.keys =>
        /\ Len(st.revenue_data.dates) = 30
        /\ Len(st.revenue_data.revenue) = 30
        /\ \A i, j \in 1..Len(st.revenue_data.dates) :
              i < j => st.revenue_data.dates[i] < st.revenue_data.dates[j]

----------------------------------------------------------------------------
(* The claims about the resource display *)

\* C16 as stated: with trace captured, a call whose stream holds invocation
\* trace events returns, beside the two steps of each such event, the dump
\* of the table as a further step exactly when the query holds "book",
\* "create" or "reserve"; for any other query no scan is made for a dump.
C16_DumpInSteps ==
    Answered /\ call.show_infrastructure /\ InvocationEvents(call.events) # {} =>
        /\ DumpWordIn[call.query] <=>
              \E j \in 1..Len(call.steps) : call.steps[j] \notin KnownSteps
        /\ ~DumpWordIn[call.query] => call.dumpScans = 0

\* C16 (amended): with trace captured, each invocation trace event of a call
\* whose query holds "book", "create" or "reserve" scans the table once and
\* appends one infrastructure message to the messages of the session: the
\* dump of all rows of the table, or the error text when the scan raises;
\* the returned steps hold only the fixed steps.  For any other query, and
\* without trace capture, no message is appended and no scan is made.
C16_DumpIsSessionMessage ==
    [][ call'.made /\ call'.connected /\ call'.count # call.count =>
          LET wanted == call'.show_infrastructure /\ DumpWordIn[call'.query]
              n == Cardinality(InvocationEvents(call'.events))
          IN  /\ ~wanted => call'.msgs = <<>> /\ call'.dumpScans = 0
              /\ /\ wanted /\ call'.invokeOk
                 /\ ~StreamFails(call'.events, call'.show_infrastructure)
                 => Len(call'.msgs) = n /\ call'.dumpScans = n
              /\ \A j \in 1..Len(call'.msgs) :
                    /\ call'.msgs[j].role = "infrastructure"
                    /\ IF call'.dumpOk
                       THEN /\ ~call'.msgs[j].error
                            /\ call'.msgs[j].found = Cardinality(bookingsTable)
                            /\ Range(call'.msgs[j].items) = bookingsTable
                       ELSE call'.msgs[j].error /\ call'.msgs[j].items = <<>>
              /\ \A j \in 1..Len(call'.steps) : call'.steps[j] \in KnownSteps
      ]_vars

\* a traced query "Create event" with two invocation events while the table
\* holds a booking: two messages, four steps
C16_Witness ==
    /\ Answered /\ call.show_infrastructure
    /\ call.query = QCreate
    /\ Cardinality(InvocationEvents(call.events)) = 2
    /\ Len(call.msgs) = 2
    /\ call.msgs[1].found = 1
    /\ Len(call.steps) = 5
    /\ ~call.refreshed

----------------------------------------------------------------------------
(* The claims about the metrics *)

\* the keys of the cached bookings that are dates of the current month
KeysOfThisMonth ==
    {d \in DOMAIN st.bookings :
        /\ DateValid(d)
        /\ d[1] = 2025 /\ d[2] = MonthOf(now)}

\* C17: after __init__ and after any queries, bookings_month of the metrics
\* is the number of keys of the cached bookings that lie in the current
\* month, also after a refresh that replaced the bookings and after
\* init_default_data.
C17_MonthCountMatchesCache ==
    app.constructed =>
        app.system_metrics.bookings_month = Cardinality(KeysOfThisMonth)

============================================================================
